---- MODULE Spec2Model ----
(***************************************************************************)
(* University Portal API (src/index.js): the two request handlers          *)
(*   GET  /api/universities   filtered catalogue query                     *)
(*   POST /api/apply          validate-then-insert of an application       *)
(* and the relational store they talk to through the connection pool.     *)
(*                                                                         *)
(* Text (request fields, query parameters, NUMERIC columns as the pg       *)
(* driver returns them) is a sequence of one-character strings.  A         *)
(* JavaScript Number is a record [nan, v]: v counts thousandths.           *)
(***************************************************************************)
EXTENDS Integers, Sequences, FiniteSets, TLC

VARIABLES universities, applications, pc, req, io, res, caught

vars == <<universities, applications, pc, req, io, res, caught>>

\* ------------------------------------------------------------------ bounds
NumClients == 2
MaxApps == 2

Clients == 1..NumClients

\* ------------------------------------------------------------------ text
\* A request field that is not supplied: JavaScript's undefined, whose string
\* conversion is the single token "undefined".
Undefined == <<"undefined">>

Digits == <<"0", "1", "2", "3", "4", "5", "6", "7", "8", "9">>

UpperCase == <<"A", "B", "C", "D", "E", "F", "G", "H", "I", "J", "K", "L", "M",
               "N", "O", "P", "Q", "R", "S", "T", "U", "V", "W", "X", "Y", "Z">>

LowerCase == <<"a", "b", "c", "d", "e", "f", "g", "h", "i", "j", "k", "l", "m",
               "n", "o", "p", "q", "r", "s", "t", "u", "v", "w", "x", "y", "z">>

IsDigit(ch) == \E d \in 1..10 : Digits[d] = ch

DigitVal(ch) == (CHOOSE d \in 1..10 : Digits[d] = ch) - 1

\* Case folding, as ILIKE applies it to both sides.
Lower(ch) ==
    IF \E k \in 1..26 : UpperCase[k] = ch
    THEN LowerCase[CHOOSE k \in 1..26 : UpperCase[k] = ch]
    ELSE ch

\* ------------------------------------------------------------------ numbers
\* Thousandths per unit of a Number.
Scale == 10 * 10 * 10

Num(v) == [nan |-> FALSE, v |-> v]

NaN == [nan |-> TRUE, v |-> 0]

\* JavaScript's < on Numbers: false whenever an operand is NaN.
Lt(a, b) == ~a.nan /\ ~b.nan /\ a.v < b.v

RECURSIVE DigitRun(_, _)
\* The index after the longest run of digits of s that starts at index i.
DigitRun(s, i) ==
    IF i <= Len(s) /\ IsDigit(s[i]) THEN DigitRun(s, i + 1) ELSE i

RECURSIVE DigitsValue(_, _, _)
\* The digits s[i..j-1] read as a natural number.
DigitsValue(s, i, j) ==
    IF i >= j THEN 0 ELSE DigitsValue(s, i, j - 1) * 10 + DigitVal(s[j - 1])

RECURSIVE SkipSpace(_, _)
SkipSpace(s, i) ==
    IF i <= Len(s) /\ s[i] = " " THEN SkipSpace(s, i + 1) ELSE i

\* The first three fraction digits s[i..j-1], in thousandths.
FractionValue(s, i, j) ==
    LET n == IF j - i > 3 THEN 3 ELSE j - i
        d == DigitsValue(s, i, i + n)
    IN  IF n = 0 THEN 0
        ELSE IF n = 1 THEN d * 100
        ELSE IF n = 2 THEN d * 10
        ELSE d

\* The longest prefix of s, after leading blanks, that is a decimal literal
\* [sign] digits [. digits] or [sign] . digits : its value and where it ends.
\* No such prefix: NaN.
ScanDecimal(s) ==
    LET b  == SkipSpace(s, 1)
        sg == IF b <= Len(s) /\ s[b] \in {"+", "-"} THEN b + 1 ELSE b
        ie == DigitRun(s, sg)
        dot == ie <= Len(s) /\ s[ie] = "."
        fe == IF dot THEN DigitRun(s, ie + 1) ELSE ie
        hasInt == ie > sg
        hasFrac == dot /\ fe > ie + 1
        mag == DigitsValue(s, sg, ie) * Scale
               + (IF hasFrac THEN FractionValue(s, ie + 1, fe) ELSE 0)
        neg == sg > b /\ s[b] = "-"
    IN  IF ~hasInt /\ ~hasFrac
        THEN [nan |-> TRUE, v |-> 0, end |-> b]
        ELSE [nan |-> FALSE, v |-> IF neg THEN 0 - mag ELSE mag,
              end |-> IF dot /\ (hasInt \/ hasFrac) THEN fe ELSE ie]

\* JavaScript parseFloat: the value of the longest numeric prefix, else NaN.
ParseFloat(s) ==
    LET r == ScanDecimal(s) IN [nan |-> r.nan, v |-> r.v]

RECURSIVE NatToText(_)
NatToText(n) ==
    IF n < 10 THEN <<Digits[n + 1]>>
    ELSE NatToText(n \div 10) \o <<Digits[(n % 10) + 1]>>

\* toFixed(2) with the digits after the second cut off instead of rounded.
ToFixed2_Truncate(x) ==
    IF x.nan THEN <<"N", "a", "N">>
    ELSE LET m == IF x.v < 0 THEN 0 - x.v ELSE x.v
             n == m \div 10
             f == n % 100
         IN  (IF x.v < 0 THEN <<"-">> ELSE <<>>)
             \o NatToText(n \div 100) \o <<".">>
             \o <<Digits[(f \div 10) + 1], Digits[(f % 10) + 1]>>

\* Number.prototype.toFixed(2): the nearest hundredth, the larger one on a
\* tie, printed with exactly two fraction digits; NaN prints as "NaN".
\* v is exact for every decimal of at most three fraction digits that is not
\* a tie, and for the ties a binary double holds exactly (multiples of 0.125).
ToFixed2(x) ==
    IF x.nan THEN <<"N", "a", "N">>
    ELSE LET m == IF x.v < 0 THEN 0 - x.v ELSE x.v
             n == (m + 5) \div 10
             f == n % 100
         IN  (IF x.v < 0 THEN <<"-">> ELSE <<>>)
             \o NatToText(n \div 100) \o <<".">>
             \o <<Digits[(f \div 10) + 1], Digits[(f % 10) + 1]>>

\* ------------------------------------------------------------------ store
\* PostgreSQL's NUMERIC input conversion of a text parameter: the whole text
\* must be a numeric literal.
NumericValid(s) ==
    LET r == ScanDecimal(s) IN ~r.nan /\ r.end = Len(s) + 1

NumericIn(s) == ParseFloat(s)

RECURSIVE Like(_, _)
\* s ILIKE p: % matches any run of characters, _ any one character, every
\* other character itself, case folded.
Like(s, p) ==
    IF p = <<>> THEN s = <<>>
    ELSE IF Head(p) = "%"
    THEN Like(s, Tail(p)) \/ (s # <<>> /\ Like(Tail(s), p))
    ELSE IF Head(p) = "_"
    THEN s # <<>> /\ Like(Tail(s), Tail(p))
    ELSE s # <<>> /\ Lower(Head(s)) = Lower(Head(p)) /\ Like(Tail(s), Tail(p))

\* The collation rank of a letter (names are upper-case letters).
Rank(ch) == CHOOSE k \in 1..26 : UpperCase[k] = ch

RECURSIVE TextLeq(_, _)
TextLeq(a, b) ==
    IF a = <<>> THEN TRUE
    ELSE IF b = <<>> THEN FALSE
    ELSE IF Head(a) = Head(b) THEN TextLeq(Tail(a), Tail(b))
    ELSE Rank(Head(a)) < Rank(Head(b))

\* WHERE tuition <= $1 AND country ILIKE $2 AND ($3 = '' OR degree_level = $3)
RowMatches(u, values) ==
    /\ NumericIn(u.tuition).v <= NumericIn(values[1]).v
    /\ Like(u.country, values[2])
    /\ (values[3] = <<>> \/ u.degree_level = values[3])

\* ORDER BY name ASC: every arrangement of the set S of rows in which names
\* never decrease (rows of equal name come in any order).
OrderByName(S) ==
    {s \in [1..Cardinality(S) -> S] :
        /\ \A u \in S : \E i \in DOMAIN s : s[i] = u
        /\ \A i, j \in DOMAIN s : i < j => TextLeq(s[i].name, s[j].name)}

\* SELECT * FROM universities WHERE ... ORDER BY name ASC
SelectUniversities(values) ==
    OrderByName({u \in universities : RowMatches(u, values)})

\* The lookup with its WHERE clause dropped.
SelectById_NoWhere(id) == universities

\* SELECT name, min_gpa, min_ielts FROM universities WHERE id = $1
SelectById(id) == {u \in universities : u.id = id}

\* The id the applications sequence generates for the next row.
NextId == Len(applications) + 1

\* What a failing query rejects with: numeric overflow, invalid text
\* representation, connection failure.
ErrorCodes == {"22003", "22P02", "ECONNREFUSED"}

\* ------------------------------------------------------------------ data
\* The pre-populated catalogue (NUMERIC columns as text, as pg returns them).
Catalogue ==
    { [id |-> 1, name |-> <<"U", "C", "L">>, country |-> <<"U", "K">>,
       tuition |-> <<"3", "0", "0", "0", "0">>,
       degree_level |-> <<"M", "S", "c">>,
       min_gpa |-> <<"3", ".", "0", "0">>, min_ielts |-> <<"6", ".", "5">>],
      [id |-> 2, name |-> <<"M", "I", "T">>, country |-> <<"U", "S", "A">>,
       tuition |-> <<"9", "0", "0", "0", "0">>,
       degree_level |-> <<"B", "S", "c">>,
       min_gpa |-> <<"3", ".", "0", "0">>, min_ielts |-> <<"6", ".", "5">>],
      [id |-> 3, name |-> <<"M", "I", "T">>, country |-> <<"U", "S", "A">>,
       tuition |-> <<"1", "2", "0", "0", "0", "0">>,
       degree_level |-> <<"M", "S", "c">>,
       min_gpa |-> <<"3", ".", "5", "0">>, min_ielts |-> <<"7", ".", "0">>] }

\* Request bodies of POST /api/apply.
Bodies ==
    [studentName : {<<"A", "n", "n">>},
     email : {<<"a", "@", "x">>},
     universityId : {1, 3, 9},
     gpa : {<<"3", ".", "5">>, <<"2", ".", "9">>, <<"3", ".", "1", "2", "5">>,
            <<"a", "b", "c">>, Undefined},
     ielts : {<<"7", ".", "0">>, <<"6">>, <<"x", "7">>}]

SmallBodies ==
    {b \in Bodies : /\ b.universityId \in {1, 9}
                    /\ b.gpa \in {<<"3", ".", "5">>, <<"2", ".", "9">>}
                    /\ b.ielts = <<"7", ".", "0">>}

\* Query strings of GET /api/universities.
Queries ==
    [maxFee : {Undefined, <<>>, <<"a", "b", "c">>, <<"9", "5", "0", "0", "0">>},
     country : {Undefined, <<>>, <<"u", "k">>, <<"_">>, <<"S">>},
     degree : {Undefined, <<"M", "S", "c">>, <<"P", "h", "D">>}]

SmallQueries ==
    {q \in Queries : /\ q.maxFee \in {Undefined, <<"a", "b", "c">>}
                     /\ q.country = Undefined
                     /\ q.degree = Undefined}

\* ------------------------------------------------------------------ state
NoRequest == [route |-> "none"]

NoResponse == [status |-> 0]

\* Nothing caught; else the rejected query's error code and the await it
\* rejected at.
NoError == [code |-> "none", during |-> "none"]

Init ==
    /\ universities = Catalogue
    /\ applications = <<>>
    /\ pc = [c \in Clients |-> "idle"]
    /\ req = [c \in Clients |-> NoRequest]
    /\ io = [c \in Clients |-> <<>>]
    /\ res = [c \in Clients |-> NoResponse]
    /\ caught = [c \in Clients |-> NoError]

\* JavaScript's a || b on text: b when a is undefined or empty.
Truthy(s) == s # Undefined /\ s # <<>>

OrElse(a, b) == IF Truthy(a) THEN a ELSE b

\* A default ceiling of 10000.
DefaultMaxFee_Low == <<"1", "0", "0", "0", "0">>

\* The default fee ceiling 100000, as the driver sends it.
DefaultMaxFee == <<"1", "0", "0", "0", "0", "0">>

\* values = [maxFee || 100000, `%${country || ""}%`, degree || ""]
ListValues(q) ==
    << OrElse(q.maxFee, DefaultMaxFee),
       <<"%">> \o OrElse(q.country, <<>>) \o <<"%">>,
       OrElse(q.degree, <<>>) >>

\* ------------------------------------------------- GET /api/universities
\* The handler runs up to its await: the query is sent.
ListReceive(c, inputs) ==
    /\ pc[c] = "idle"
    /\ \E q \in inputs :
        /\ req' = [req EXCEPT ![c] = [route |-> "GET /api/universities", query |-> q]]
        /\ io' = [io EXCEPT ![c] = ListValues(q)]
    /\ pc' = [pc EXCEPT ![c] = "query"]
    /\ UNCHANGED <<universities, applications, res, caught>>

\* The store answers; res.json(result.rows).
ListReturn(c) ==
    /\ pc[c] = "query"
    /\ NumericValid(io[c][1])
    /\ \E rows \in SelectUniversities(io[c]) :
        res' = [res EXCEPT ![c] = [status |-> 200, body |-> rows]]
    /\ pc' = [pc EXCEPT ![c] = "done"]
    /\ io' = [io EXCEPT ![c] = <<>>]
    /\ UNCHANGED <<universities, applications, req, caught>>

\* The query rejects; the catch block answers 500.
ListCatch(c) ==
    /\ pc[c] = "query"
    /\ \E code \in ErrorCodes :
        caught' = [caught EXCEPT ![c] = [code |-> code, during |-> pc[c]]]
    /\ res' = [res EXCEPT ![c] =
                 [status |-> 500, body |-> [error |-> "Internal Server Error"]]]
    /\ pc' = [pc EXCEPT ![c] = "done"]
    /\ io' = [io EXCEPT ![c] = <<>>]
    /\ UNCHANGED <<universities, applications, req>>

\* ------------------------------------------------------- POST /api/apply
\* The 403 body without the university's name.
RejectedMessage_Anonymous(name) ==
    [text |-> "Application Rejected: Your scores do not meet the minimum requirements.",
     args |-> <<>>]

\* The 403 body: the template and the values interpolated into it.
RejectedMessage(name) ==
    [text |-> "Application Rejected: Your scores do not meet the minimum requirements for ${name}.",
     args |-> <<name>>]

\* The comparison with && in place of ||.
BelowMinimum_Both(body, u) ==
    /\ Lt(ParseFloat(body.gpa), ParseFloat(u.min_gpa))
    /\ Lt(ParseFloat(body.ielts), ParseFloat(u.min_ielts))

\* numGPA < parseFloat(min_gpa) || numIELTS < parseFloat(min_ielts)
BelowMinimum(body, u) ==
    \/ Lt(ParseFloat(body.gpa), ParseFloat(u.min_gpa))
    \/ Lt(ParseFloat(body.ielts), ParseFloat(u.min_ielts))

\* The parameters of the INSERT: the scores formatted by toFixed(2).
InsertValues(body) ==
    << body.studentName, body.email, body.universityId,
       ToFixed2(ParseFloat(body.gpa)), ToFixed2(ParseFloat(body.ielts)) >>

\* The row the INSERT adds for its parameters.
NewRow(values) ==
    [id |-> NextId, student_name |-> values[1], student_email |-> values[2],
     university_id |-> values[3], gpa_submitted |-> values[4],
     ielts_submitted |-> values[5]]

\* The handler runs up to its first await: the lookup is sent.
ApplyReceive(c, inputs) ==
    /\ pc[c] = "idle"
    /\ Len(applications)
         + Cardinality({d \in Clients : pc[d] \in {"lookup", "insert"}}) < MaxApps
    /\ \E b \in inputs :
        /\ req' = [req EXCEPT ![c] = [route |-> "POST /api/apply", body |-> b]]
        /\ io' = [io EXCEPT ![c] = <<b.universityId>>]
    /\ pc' = [pc EXCEPT ![c] = "lookup"]
    /\ UNCHANGED <<universities, applications, res, caught>>

\* The lookup answers: 404 on no row, 403 below a minimum, else the INSERT
\* is sent.
ApplyLookupReturn(c) ==
    /\ pc[c] = "lookup"
    /\ LET rows == SelectById(io[c][1])
           body == req[c].body
       IN  IF rows = {}
           THEN /\ res' = [res EXCEPT ![c] =
                            [status |-> 404,
                             body |-> [message |-> [text |-> "University not found",
                                                    args |-> <<>>]]]]
                /\ pc' = [pc EXCEPT ![c] = "done"]
                /\ io' = [io EXCEPT ![c] = <<>>]
           ELSE \E u \in rows :
                IF BelowMinimum(body, u)
                THEN /\ res' = [res EXCEPT ![c] =
                                 [status |-> 403,
                                  body |-> [message |-> RejectedMessage(u.name)]]]
                     /\ pc' = [pc EXCEPT ![c] = "done"]
                     /\ io' = [io EXCEPT ![c] = <<>>]
                ELSE /\ io' = [io EXCEPT ![c] = InsertValues(body)]
                     /\ pc' = [pc EXCEPT ![c] = "insert"]
                     /\ res' = res
    /\ UNCHANGED <<universities, applications, req, caught>>

\* An INSERT that overwrites the newest row when there is one.
ApplyInsertExec_Replace(c) ==
    /\ pc[c] = "insert"
    /\ applications' =
         IF applications = <<>>
         THEN <<NewRow(io[c])>>
         ELSE [applications EXCEPT ![Len(applications)] =
                 [NewRow(io[c]) EXCEPT !.id = Len(applications)]]
    /\ io' = [io EXCEPT ![c] = <<Len(applications')>>]
    /\ pc' = [pc EXCEPT ![c] = "inserted"]
    /\ UNCHANGED <<universities, req, res, caught>>

\* The store executes the INSERT and generates the id it returns.
ApplyInsertExec(c) ==
    /\ pc[c] = "insert"
    /\ applications' = Append(applications, NewRow(io[c]))
    /\ io' = [io EXCEPT ![c] = <<NextId>>]
    /\ pc' = [pc EXCEPT ![c] = "inserted"]
    /\ UNCHANGED <<universities, req, res, caught>>

\* The INSERT's result arrives: 201 with newApp.rows[0].id.
ApplyInsertReturn(c) ==
    /\ pc[c] = "inserted"
    /\ res' = [res EXCEPT ![c] =
                 [status |-> 201,
                  body |-> [message |-> [text |-> "Application submitted successfully!",
                                         args |-> <<>>],
                            applicationId |-> io[c][1]]]]
    /\ pc' = [pc EXCEPT ![c] = "done"]
    /\ io' = [io EXCEPT ![c] = <<>>]
    /\ UNCHANGED <<universities, applications, req, caught>>

\* A catch block that answers 500 for every error.
CatchStatus_Generic(code) == 500

\* The status the catch block answers for an error code.
CatchStatus(code) == IF code = "22003" THEN 400 ELSE 500

\* Either query rejects: the catch block answers 400 for 22003, else 500.
ApplyCatch(c) ==
    /\ pc[c] \in {"lookup", "insert"}
    /\ \E code \in ErrorCodes :
        /\ caught' = [caught EXCEPT ![c] = [code |-> code, during |-> pc[c]]]
        /\ res' = [res EXCEPT ![c] =
                     [status |-> CatchStatus(code),
                      body |-> [message |->
                          [text |-> IF code = "22003"
                                    THEN "Score value too high for database limits."
                                    ELSE "Database error during submission.",
                           args |-> <<>>]]]]
    /\ pc' = [pc EXCEPT ![c] = "done"]
    /\ io' = [io EXCEPT ![c] = <<>>]
    /\ UNCHANGED <<universities, applications, req>>

\* The response is out; the server goes on serving the next request.
Close(c) ==
    /\ pc[c] = "done"
    /\ pc' = [pc EXCEPT ![c] = "idle"]
    /\ req' = [req EXCEPT ![c] = NoRequest]
    /\ res' = [res EXCEPT ![c] = NoResponse]
    /\ caught' = [caught EXCEPT ![c] = NoError]
    /\ UNCHANGED <<universities, applications, io>>

\* ------------------------------------------------------- specifications
\* Concurrent requests, one per client, of either route.
Next ==
    \E c \in Clients :
        \/ ListReceive(c, SmallQueries)
        \/ ListReturn(c)
        \/ ListCatch(c)
        \/ ApplyReceive(c, SmallBodies)
        \/ ApplyLookupReturn(c)
        \/ ApplyInsertExec(c)
        \/ ApplyInsertReturn(c)
        \/ ApplyCatch(c)

Spec == Init /\ [][Next]_vars

\* Any sequence of POST /api/apply requests, one at a time, over all bodies.
NextApply ==
    \/ ApplyReceive(1, Bodies)
    \/ ApplyLookupReturn(1)
    \/ ApplyInsertExec(1)
    \/ ApplyInsertReturn(1)
    \/ ApplyCatch(1)
    \/ Close(1)

SpecApply == Init /\ [][NextApply]_vars

\* Any sequence of GET /api/universities requests, over all query strings.
NextList ==
    \/ ListReceive(1, Queries)
    \/ ListReturn(1)
    \/ ListCatch(1)
    \/ Close(1)

SpecList == Init /\ [][NextList]_vars

\* ------------------------------------------------------------- claims
IsApply(c) == req[c].route = "POST /api/apply"

IsList(c) == req[c].route = "GET /api/universities"

\* a >= b on Numbers (false when either is NaN).
Geq(a, b) == ~a.nan /\ ~b.nan /\ a.v >= b.v

Unparsable(s) == ParseFloat(s).nan

\* The universities the request of client c refers to.
Referred(c) == {u \in universities : u.id = req[c].body.universityId}

\* Both parsed scores of c's request reach the minimums of university u.
MeetsMinimums(c, u) ==
    /\ Geq(ParseFloat(req[c].body.gpa), ParseFloat(u.min_gpa))
    /\ Geq(ParseFloat(req[c].body.ielts), ParseFloat(u.min_ielts))

\* A parsed score of c's request is strictly below a minimum of university u.
UnderMinimum(c, u) ==
    \/ (~Unparsable(req[c].body.gpa)
        /\ ParseFloat(req[c].body.gpa).v < ParseFloat(u.min_gpa).v)
    \/ (~Unparsable(req[c].body.ielts)
        /\ ParseFloat(req[c].body.ielts).v < ParseFloat(u.min_ielts).v)

\* Text t is score x rounded to two decimals: two fraction digits, the
\* nearest hundredth, the upper one on a tie.
RoundedTwoDecimals(t, x) ==
    LET r == ScanDecimal(t)
    IN  /\ ~r.nan /\ r.end = Len(t) + 1
        /\ Len(t) >= 4 /\ t[Len(t) - 2] = "."
        /\ r.v - x.v <= 5 /\ x.v - r.v < 5

\* The message names the value v.
Mentions(message, v) == \E i \in DOMAIN message.args : message.args[i] = v

\* A step that adds no row and changes none.
RowsUnchanged == applications' = applications

\* C1: every row of applications refers to an existing university and its
\* scores are both at least that university's minimums.
C1_RowsMeetMinimums ==
    \A i \in DOMAIN applications :
        \E u \in universities :
            /\ u.id = applications[i].university_id
            /\ Geq(ParseFloat(applications[i].gpa_submitted), ParseFloat(u.min_gpa))
            /\ Geq(ParseFloat(applications[i].ielts_submitted), ParseFloat(u.min_ielts))

\* C2: a submission to an existing university whose gpa or ielts does not
\* parse as a number is answered 403 and never reaches the INSERT.
C2_UnparsableRejected ==
    \A c \in Clients :
        (/\ IsApply(c)
         /\ Referred(c) # {}
         /\ (Unparsable(req[c].body.gpa) \/ Unparsable(req[c].body.ielts)))
        => /\ pc[c] \notin {"insert", "inserted"}
           /\ (pc[c] = "done" /\ caught[c] = NoError => res[c].status = 403)

\* C3 as stated: a submission whose lookup returned the university and whose
\* parsed scores reach both minimums always ends 201.
C3_PassingAlwaysCreated ==
    \A c \in Clients :
        (/\ IsApply(c) /\ pc[c] = "done"
         /\ caught[c].during # "lookup"
         /\ \E u \in Referred(c) : MeetsMinimums(c, u))
        => res[c].status = 201

\* The state part of C3: answered without a rejected query, a passing
\* submission holds 201 and the id of the one row made from it, whose scores
\* are the submitted ones rounded to two decimals.
C3_CreatedRow ==
    \A c \in Clients :
        (/\ IsApply(c) /\ pc[c] = "done"
         /\ caught[c] = NoError
         /\ \E u \in Referred(c) : MeetsMinimums(c, u))
        => /\ res[c].status = 201
           /\ Cardinality({i \in DOMAIN applications :
                            applications[i].id = res[c].body.applicationId}) = 1
           /\ \A i \in DOMAIN applications :
                applications[i].id = res[c].body.applicationId
                => /\ applications[i].university_id = req[c].body.universityId
                   /\ applications[i].student_name = req[c].body.studentName
                   /\ applications[i].student_email = req[c].body.email
                   /\ RoundedTwoDecimals(applications[i].gpa_submitted,
                                         ParseFloat(req[c].body.gpa))
                   /\ RoundedTwoDecimals(applications[i].ielts_submitted,
                                         ParseFloat(req[c].body.ielts))

\* The step part of C3: rows are added one at a time, by the INSERT of a
\* submission alone, and a 201 is the answer to an executed INSERT alone.
C3_OneInsert ==
    /\ \/ RowsUnchanged
       \/ /\ Len(applications') = Len(applications) + 1
          /\ \E c \in Clients : pc[c] = "insert" /\ pc'[c] = "inserted"
    /\ \A c \in Clients :
        (res'[c].status = 201 /\ res[c].status # 201) => pc[c] = "inserted"

\* C3, amended: a submission to an existing university whose parsed scores
\* reach both minimums, when neither of its queries is rejected, creates
\* exactly one row, with the scores rounded to two decimals, and is answered
\* 201 with that row's generated id.
C3_PassingCreatesOneRow == []C3_CreatedRow /\ [][C3_OneInsert]_vars

\* A 201 for the submission gpa 3.125 (a tie) stored as 3.13.
C3_Witness ==
    \E c \in Clients :
        /\ IsApply(c) /\ pc[c] = "done" /\ res[c].status = 201
        /\ req[c].body.gpa = <<"3", ".", "1", "2", "5">>
        /\ \E i \in DOMAIN applications :
            /\ applications[i].id = res[c].body.applicationId
            /\ applications[i].gpa_submitted = <<"3", ".", "1", "3">>

\* The state part of C4.
C4_Rejected ==
    \A c \in Clients :
        (IsApply(c) /\ \E u \in Referred(c) : UnderMinimum(c, u))
        => /\ pc[c] \notin {"insert", "inserted"}
           /\ (pc[c] = "done" /\ caught[c] = NoError => res[c].status = 403)

\* The step part of C4: the step that answers 403 leaves the rows alone.
C4_NoInsert ==
    \A c \in Clients :
        (res'[c].status = 403 /\ res[c].status # 403) => RowsUnchanged

\* C4: a submission with gpa or ielts below the minimum of the existing
\* university its lookup returns is answered 403, never reaches the INSERT,
\* and the answer leaves the number of rows unchanged.
C4_BelowMinimumRejected == []C4_Rejected /\ [][C4_NoInsert]_vars

\* A 403 for a gpa below the minimum with an ielts above it.
C4_Witness ==
    \E c \in Clients :
        /\ IsApply(c) /\ pc[c] = "done" /\ res[c].status = 403
        /\ \E u \in Referred(c) :
            /\ ParseFloat(req[c].body.gpa).v < ParseFloat(u.min_gpa).v
            /\ Geq(ParseFloat(req[c].body.ielts), ParseFloat(u.min_ielts))
        /\ applications # <<>>

\* The state part of C5.
C5_NotFound ==
    \A c \in Clients :
        (IsApply(c) /\ Referred(c) = {})
        => /\ pc[c] \notin {"insert", "inserted"}
           /\ (pc[c] = "done" /\ caught[c] = NoError => res[c].status = 404)

\* The step part of C5: the step that answers 404 leaves the rows alone.
C5_NoInsert ==
    \A c \in Clients :
        (res'[c].status = 404 /\ res[c].status # 404) => RowsUnchanged

\* C5: a submission whose universityId the lookup matches to no row is
\* answered 404 whatever its scores, never reaches the INSERT, and the
\* answer leaves the number of rows unchanged.
C5_UnknownUniversity == []C5_NotFound /\ [][C5_NoInsert]_vars

\* A 404 for university 9, with scores that would pass anywhere.
C5_Witness ==
    \E c \in Clients :
        /\ IsApply(c) /\ pc[c] = "done" /\ res[c].status = 404
        /\ req[c].body.universityId = 9
        /\ req[c].body.gpa = <<"3", ".", "5">>
        /\ req[c].body.ielts = <<"7", ".", "0">>
        /\ applications # <<>>

\* The state part of C6.
C6_Status ==
    \A c \in Clients :
        (IsApply(c) /\ pc[c] = "done" /\ caught[c] # NoError)
        => /\ (res[c].status = 400 <=> caught[c].code = "22003")
           /\ (res[c].status = 500 <=> caught[c].code # "22003")

\* The step part of C6: the catch leaves the rows alone, and is never the
\* catch of a query that was executed.
C6_NoInsert ==
    \A c \in Clients :
        (IsApply(c) /\ caught'[c] # NoError /\ caught[c] = NoError)
        => RowsUnchanged /\ pc[c] # "inserted"

\* C6: when a query of POST /api/apply is rejected the answer is 400 if and
\* only if the error code is 22003, 500 for every other code, and no row is
\* inserted.
C6_StoreFailure == []C6_Status /\ [][C6_NoInsert]_vars

\* A rejected INSERT with code 22003, answered 400.
C6_Witness ==
    \E c \in Clients :
        /\ IsApply(c) /\ pc[c] = "done" /\ res[c].status = 400
        /\ caught[c] = [code |-> "22003", during |-> "insert"]

\* C7 as stated: the 403 message names the university and both minimums.
C7_MessageNamesThresholds ==
    \A c \in Clients :
        (IsApply(c) /\ res[c].status = 403)
        => \A u \in Referred(c) :
            /\ Mentions(res[c].body.message, u.name)
            /\ Mentions(res[c].body.message, u.min_gpa)
            /\ Mentions(res[c].body.message, u.min_ielts)

\* C7, amended: the 403 message names the university, and nothing else (not
\* its minimums).
C7_MessageNamesUniversity ==
    \A c \in Clients :
        (IsApply(c) /\ res[c].status = 403)
        => \A u \in Referred(c) : res[c].body.message.args = <<u.name>>

\* A 403 for university 3.
C7_Witness ==
    \E c \in Clients :
        /\ IsApply(c) /\ res[c].status = 403
        /\ req[c].body.universityId = 3
        /\ Mentions(res[c].body.message, <<"M", "I", "T">>)

\* Text s contains text f, compared case-insensitively.
ContainsFolded(s, f) ==
    \E k \in 0..(Len(s) - Len(f)) :
        \A j \in 1..Len(f) : Lower(s[k + j]) = Lower(f[j])

\* A filter as the contract reads it: empty when not supplied.
FilterText(s) == IF s = Undefined THEN <<>> ELSE s

\* The fee bound in thousandths: the ceiling 100000 without a maxFee.
FeeBound(q) ==
    IF q.maxFee \in {Undefined, <<>>} THEN 100000 * Scale
    ELSE ParseFloat(q.maxFee).v

\* The universities query q asks for.
Wanted(q) ==
    {u \in universities :
        /\ ParseFloat(u.tuition).v <= FeeBound(q)
        /\ ContainsFolded(u.country, FilterText(q.country))
        /\ (FilterText(q.degree) = <<>> \/ u.degree_level = FilterText(q.degree))}

\* The rows of a list, each once, names ascending.
ListsExactly(rows, S) ==
    /\ {rows[i] : i \in DOMAIN rows} = S
    /\ Len(rows) = Cardinality(S)
    /\ \A i, j \in DOMAIN rows : i < j => TextLeq(rows[i].name, rows[j].name)

\* C8: a GET /api/universities answered 200 lists exactly the universities
\* with tuition <= maxFee, country containing the country filter as a
\* case-insensitive substring, and degree_level equal to a non-empty degree
\* filter, by name ascending.
C8_ExactFilter ==
    \A c \in Clients :
        (IsList(c) /\ pc[c] = "done" /\ res[c].status = 200)
        => ListsExactly(res[c].body, Wanted(req[c].query))

\* C9 as stated: with maxFee absent or not numeric the fee bound sent to the
\* store is the default ceiling.
C9_DefaultWhenNotNumeric ==
    \A c \in Clients :
        (/\ IsList(c) /\ pc[c] = "query"
         /\ (req[c].query.maxFee = Undefined \/ ~NumericValid(req[c].query.maxFee)))
        => ParseFloat(io[c][1]) = Num(100000 * Scale)

\* C9, amended: with maxFee absent or empty the fee bound sent to the store
\* is the default ceiling 100000, any other maxFee is sent as it came, and a
\* request with all three filters omitted that is answered 200 lists every
\* university with tuition <= 100000.
C9_DefaultWhenAbsentOrEmpty ==
    \A c \in Clients :
        IsList(c)
        => /\ pc[c] = "query"
              => IF req[c].query.maxFee \in {Undefined, <<>>}
                 THEN ParseFloat(io[c][1]) = Num(100000 * Scale)
                 ELSE io[c][1] = req[c].query.maxFee
           /\ (/\ pc[c] = "done" /\ res[c].status = 200
               /\ req[c].query = [maxFee |-> Undefined, country |-> Undefined,
                                  degree |-> Undefined])
              => ListsExactly(res[c].body,
                     {u \in universities : ParseFloat(u.tuition).v <= 100000 * Scale})

\* All three filters omitted, answered with the two universities under the
\* ceiling and without the one above it.
C9_Witness ==
    \E c \in Clients :
        /\ IsList(c) /\ pc[c] = "done" /\ res[c].status = 200
        /\ req[c].query = [maxFee |-> Undefined, country |-> Undefined,
                           degree |-> Undefined]
        /\ Len(res[c].body) = 2
        /\ \E u \in universities : \A i \in DOMAIN res[c].body : res[c].body[i] # u

\* The state part of C10: the rows are those of the submissions answered 201
\* and of those whose executed INSERT has its answer on the way.
C10_Count ==
    Len(applications)
        = Cardinality({c \in Clients : res[c].status = 201})
          + Cardinality({c \in Clients : pc[c] = "inserted"})

\* The step part of C10: a step appends one row or leaves the rows alone,
\* and leaves the universities alone.
C10_Append ==
    /\ universities' = universities
    /\ \/ applications' = applications
       \/ /\ Len(applications') = Len(applications) + 1
          /\ SubSeq(applications', 1, Len(applications)) = applications

\* C10: under every interleaving of requests the applications only grow by
\* appends, as many rows as submissions answered 201 (or about to be), a row
\* once inserted never changes or goes, and universities never change.
C10_AppendOnly == []C10_Count /\ [][C10_Append]_vars

\* Two concurrent submissions both answered 201, two rows.
C10_Witness ==
    /\ Len(applications) = 2
    /\ Cardinality({c \in Clients : res[c].status = 201}) = 2

====
